---- MODULE Spec2Model ----
(***************************************************************************)
(* Random-walk path generator of robolibs/entropy                          *)
(* (src/include/entropy/path.hpp; src/src/path.cpp is the same code        *)
(* without `inline`).                                                      *)
(*                                                                         *)
(* Numbers.  A C++ double is modelled as an integer count of grid units,   *)
(* Unit units making 1.0 (so that the 0.025 superhuman factor is one unit  *)
(* in Unit), rounded after every arithmetic operation to MantBits          *)
(* significant bits, round-half-to-even, as IEEE-754 does with 53 bits.    *)
(* The largest finite double is DblMax units; a result beyond it is an     *)
(* infinity.                                                               *)
(*                                                                         *)
(* Pseudo-random stream.  std::mt19937 is modelled by its real output:     *)
(* Mt19937[seed + 1][k] is the top 8 bits of the k-th 32-bit word of       *)
(* std::mt19937(seed).  libstdc++ takes uniform_int_distribution(0,7) from *)
(* the top 3 bits of one word, (0,3) from the top 2 bits of one word, and  *)
(* uniform_real_distribution from two words of which the second one holds  *)
(* the leading bits of the sample.                                         *)
(***************************************************************************)
EXTENDS Integers, Naturals, Sequences, FiniteSets, TLC

\* ------------------------------------------------------------- bounds
MaxSteps == 2        \* largest total_steps a constructor is called with
MaxOps == 3          \* calls made on one walker after its construction
MantBits == 7        \* significand width of the modelled double
MaxWalkers == 3      \* largest num_walkers a simulation is built with
MaxPairOps == 2      \* calls made on each walker of the two-walker specification
MaxSimOps == 2       \* generate() calls made on a simulation

\* -------------------------------------------------------------- state
VARIABLES
    walkers,   \* the RandomWalk objects that exist, by the caller's handle
    calls,     \* per walker: the member functions called on it since construction
    sim,       \* the WalkSimulation object, when it exists: << >> or <<object>>
    simcalls,  \* the modifying member functions called on the simulation
    ret,       \* the last call: [op, who, args, status, value]
    crashed,   \* the process was aborted by a failed library precondition
    pc         \* while the walkers are generated side by side: per walker, the
               \* value of generate()'s loop variable (0 before its start pose)

vars == <<walkers, calls, sim, simcalls, ret, crashed, pc>>

\* ---------------------------------------------------------- constants
Unit == 40           \* grid units per 1.0: 0.025 * Unit = 1
DblMax == 1048576    \* std::numeric_limits<double>::max(), in units

\* ------------------------------------------------------------ doubles
Abs(n) == IF n < 0 THEN -n ELSE n

RECURSIVE Pow2(_)
Pow2(k) == IF k = 0 THEN 1 ELSE 2 * Pow2(k - 1)

\* Levels of one stream word: its top 8 bits are modelled.
WordLevels == Pow2(8)

\* The spacing of the representable values around magnitude m.
RECURSIVE Quantum(_, _)
Quantum(m, q) == IF m < Pow2(MantBits) * q THEN q ELSE Quantum(m, 2 * q)

RoundHalfEven(m, q) ==
    LET lo == m \div q
        r  == m % q
    IN  IF 2 * r < q THEN lo
        ELSE IF 2 * r > q THEN lo + 1
        ELSE IF lo % 2 = 0 THEN lo ELSE lo + 1

\* Rounding of an exact result to the nearest representable double.
Fl(n) ==
    LET m == Abs(n)
        q == Quantum(m, 1)
        v == RoundHalfEven(m, q) * q
    IN  IF n < 0 THEN -v ELSE v

FAdd(a, b) == Fl(a + b)
FSub(a, b) == Fl(a - b)

\* The infinity a result beyond the largest double becomes.
Inf == 2 * DblMax

Overflow(n) == IF n > DblMax THEN Inf ELSE IF n < -DblMax THEN -Inf ELSE n

\* x / 2.0: halving a double is exact, so the quotient is kept as the
\* fraction num / den.
Half(x) == [num |-> x, den |-> 2]

\* x * 0.025, in units.
MulBonus(x) ==
    LET m == Abs(x)
        v == RoundHalfEven(m, Unit)
    IN  Fl(IF x < 0 THEN -v ELSE v)

\* std::sqrt(static_cast<double>(n)), in units.
SqrtUnits(n) ==
    LET N == Unit * Unit * n
        r == CHOOSE k \in 0..(Unit * n) : k * k <= N /\ N < (k + 1) * (k + 1)
    IN  IF N > r * r + r THEN r + 1 ELSE r

\* ------------------------------------------------------------ mt19937
Mt19937 ==
    << <<140,151,183,216,154,219,139,216,108,159,165,98,112,76,228,14,
         246,69,98,122,202,207,135,122,145,100,236,214,18,86,22,165,
         5,94,213,245,199,35,222,222,250,121,204,205,118,133,199,173>>,
       <<106,255,184,238,0,32,77,255,37,60,23,101,47,99,88,171,
         101,239,137,216,107,80,175,134,52,113,224,58,7,136,171,233,
         106,117,143,110,35,240,50,199,204,183,247,205,80,23,177,132>>,
       <<111,47,6,238,140,242,111,124,107,82,84,39,52,178,158,30,
         76,124,68,161,159,209,135,174,34,127,131,150,47,184,201,66,
         218,139,126,104,216,45,20,248,129,76,16,73,109,29,24,46>>,
       <<141,18,181,215,74,31,130,145,228,111,229,4,32,10,53,63,
         13,23,112,177,7,37,116,116,166,55,71,90,173,126,151,233,
         6,196,143,249,66,103,106,141,72,78,177,150,112,70,40,116>>,
       <<247,230,140,44,249,219,182,155,178,152,55,36,249,57,1,178,
         64,231,111,162,199,1,50,146,220,92,251,154,41,100,152,207,
         2,156,98,68,11,164,244,207,111,4,242,10,201,241,221,114>>,
       <<56,14,222,212,52,93,235,250,125,22,156,101,196,90,132,124,
         75,253,48,206,20,166,189,209,112,62,40,195,225,28,70,52,
         106,30,75,224,160,134,148,125,153,187,68,3,72,23,64,211>>,
       <<228,242,84,53,210,16,10,94,27,252,152,25,135,155,107,135,
         85,123,159,211,112,193,188,99,132,61,148,39,165,185,253,234,
         209,121,105,173,224,205,210,117,13,172,183,37,205,91,188,157>>,
       <<19,58,199,81,112,250,185,116,250,78,137,67,128,22,18,107,
         68,4,127,135,173,222,205,84,97,100,16,172,73,172,232,177,
         54,88,115,237,238,67,6,192,153,65,243,217,58,44,140,202>> >>

SeedDomain == 0..(Len(Mt19937) - 1)
StreamLen == Len(Mt19937[1])

\* std::mt19937 rng(seed) and rng.seed(seed): the stream of `seed`, rewound.
SeedRng(seed) == [seed |-> seed, pos |-> 0]

\* The k-th word the stream yields next (k = 1 is the next one).
Word(rng, k) == Mt19937[rng.seed + 1][rng.pos + k]

Advance(rng, n) == [rng EXCEPT !.pos = @ + n]

\* Words left in the modelled part of the stream.
Has(rng, n) == rng.pos + n <= StreamLen

\* std::uniform_real_distribution<double>(a, b)(rng): two words, the sample
\* a + u * (b - a) with u in [0, 1) led by the second word.  For b < a the
\* call has undefined behaviour; see RealDrawDefined.
RealDraw(a, b, rng) ==
    LET w == Word(rng, 2)
    IN  IF b >= a THEN Fl(a + ((b - a) * w) \div WordLevels)
        ELSE Fl(a - ((a - b) * w) \div WordLevels)

RealDrawDefined(a, b) == a <= b

\* std::uniform_int_distribution<int>(0, n - 1)(rng), n a power of two: one
\* word, its top bits.
IntDraw(n, rng) == (Word(rng, 1) * n) \div WordLevels

\* --------------------------------------------------- enums and config
Neumann == "Neumann"
Moore == "Moore"
MovePatterns == {Neumann, Moore}

\* enum class Direction, by its enumerator values.
North == 0
Northeast == 1
East == 2
Southeast == 3
South == 4
Southwest == 5
West == 6
Northwest == 7

Slow == "Slow"
Normal == "Normal"
Fast == "Fast"
Superhuman == "Superhuman"

\* WalkConfig(int seed_): the default member initializers, with the seed.
WalkConfig(seed) ==
    [seed |-> seed, min_speed |-> Unit, max_speed |-> 3 * Unit,
     move_pattern |-> Moore, random_start |-> TRUE, start_range_factor |-> 1]

Origin == [x |-> 0, y |-> 0, z |-> 0]

\* -------------------------------------------------- RandomWalk, as code
\* The upper end of the speed distribution: max_speed + max_speed * 0.025.
SpeedUpper(config) == FAdd(config.max_speed, MulBonus(config.max_speed))

\* Whether get_random_speed() meets the precondition a <= b of
\* std::uniform_real_distribution.
SpeedDrawDefined(config) == RealDrawDefined(config.min_speed, SpeedUpper(config))

\* The bonus taken as 25 percent of max_speed instead of 2.5 percent.
GetRandomSpeedWideBonus(w) ==
    [value |-> RealDraw(w.config.min_speed,
                        FAdd(w.config.max_speed, Fl((10 * w.config.max_speed) \div Unit)),
                        w.rng),
     rng   |-> Advance(w.rng, 2)]

GetRandomSpeed(w) ==
    [value |-> RealDraw(w.config.min_speed, SpeedUpper(w.config), w.rng),
     rng   |-> Advance(w.rng, 2)]

\* The speed drawn only while it is still unset.
InitSpeedOnce(w) ==
    IF w.walker_speed # 0 THEN w
    ELSE [w EXCEPT !.walker_speed = GetRandomSpeed(w).value, !.rng = GetRandomSpeed(w).rng]

InitSpeed(w) ==
    LET d == GetRandomSpeed(w)
    IN  [w EXCEPT !.walker_speed = d.value, !.rng = d.rng]

\* The stream seeded from a count of the instances instead of config.seed.
MembersSeededByInstance(total_steps, config) ==
    [total_steps |-> total_steps, config |-> config, walker_speed |-> 0,
     path |-> << >>, rng |-> SeedRng(config.seed + Cardinality(DOMAIN walkers))]

\* The check both constructors make of total_steps.
StepsInvalid(total_steps) == total_steps <= 0

\* The members as the constructor's initializer list leaves them.
Members(total_steps, config) ==
    [total_steps |-> total_steps, config |-> config, walker_speed |-> 0,
     path |-> << >>, rng |-> SeedRng(config.seed)]

\* RandomWalk::RandomWalk, past its total_steps check.
ConstructW(total_steps, config) == InitSpeed(Members(total_steps, config))

\* The start range taken as total_steps * factor, the square root left out.
GetRandomStartpointNoSqrt(w) ==
    LET range == Fl(Unit * w.total_steps * w.config.start_range_factor)
        x == RealDraw(-range, range, w.rng)
        y == RealDraw(-range, range, Advance(w.rng, 2))
    IN  [point |-> [x |-> x, y |-> y, z |-> 0], rng |-> Advance(w.rng, 4)]

GetRandomStartpoint(w) ==
    LET range == Fl(SqrtUnits(w.total_steps) * w.config.start_range_factor)
        x == RealDraw(-range, range, w.rng)
        y == RealDraw(-range, range, Advance(w.rng, 2))
    IN  [point |-> [x |-> x, y |-> y, z |-> 0], rng |-> Advance(w.rng, 4)]

\* The index table holding the first four enumerators.
NeumannDirectionsFirstFour == <<North, Northeast, East, Southeast>>

NeumannDirections == <<North, East, South, West>>

\* The direction drawn from a generator shared by the walkers of a simulation
\* (a static rng), here the first walker's.
GetRandomDirectionSharedStream(w) ==
    LET shared == IF sim = << >> THEN w.rng ELSE sim[1].walkers[1].rng
    IN  IF w.config.move_pattern = Moore
        THEN [dir |-> IntDraw(8, shared), rng |-> Advance(w.rng, 1)]
        ELSE [dir |-> NeumannDirections[IntDraw(4, shared) + 1], rng |-> Advance(w.rng, 1)]

GetRandomDirection(w) ==
    IF w.config.move_pattern = Moore
    THEN [dir |-> IntDraw(8, w.rng), rng |-> Advance(w.rng, 1)]
    ELSE [dir |-> NeumannDirections[IntDraw(4, w.rng) + 1], rng |-> Advance(w.rng, 1)]

\* The switch with the West case moving by 1.0 instead of speed.
DisplacementUnitWest(direction, speed) ==
    CASE direction = North     -> [dx |-> 0,      dy |-> speed]
      [] direction = Northeast -> [dx |-> speed,  dy |-> speed]
      [] direction = East      -> [dx |-> speed,  dy |-> 0]
      [] direction = Southeast -> [dx |-> speed,  dy |-> -speed]
      [] direction = South     -> [dx |-> 0,      dy |-> -speed]
      [] direction = Southwest -> [dx |-> -speed, dy |-> -speed]
      [] direction = West      -> [dx |-> -Unit,  dy |-> 0]
      [] direction = Northwest -> [dx |-> -speed, dy |-> speed]

\* The displacement (dx, dy) the switch of plan_next_step selects.
Displacement(direction, speed) ==
    CASE direction = North     -> [dx |-> 0,      dy |-> speed]
      [] direction = Northeast -> [dx |-> speed,  dy |-> speed]
      [] direction = East      -> [dx |-> speed,  dy |-> 0]
      [] direction = Southeast -> [dx |-> speed,  dy |-> -speed]
      [] direction = South     -> [dx |-> 0,      dy |-> -speed]
      [] direction = Southwest -> [dx |-> -speed, dy |-> -speed]
      [] direction = West      -> [dx |-> -speed, dy |-> 0]
      [] direction = Northwest -> [dx |-> -speed, dy |-> speed]

\* The new waypoint computed from the path's first waypoint instead of its
\* last (waypoints.front() for waypoints.back()).
PlanNextStepFromFront(w, direction, current) ==
    LET d == Displacement(direction, w.walker_speed)
        new_point == [x |-> FAdd(w.path[1].x, d.dx), y |-> FAdd(w.path[1].y, d.dy),
                      z |-> w.path[1].z]
    IN  [w EXCEPT !.path = Append(@, new_point)]

PlanNextStep(w, direction, current) ==
    LET d == Displacement(direction, w.walker_speed)
        new_point == [x |-> FAdd(current.x, d.dx), y |-> FAdd(current.y, d.dy),
                      z |-> current.z]
    IN  [w EXCEPT !.path = Append(@, new_point)]

\* One iteration of generate()'s loop.
GenerateStep(w) ==
    LET d == GetRandomDirection(w)
    IN  PlanNextStep([w EXCEPT !.rng = d.rng], d.dir, w.path[Len(w.path)])

RECURSIVE GenerateLoop(_, _)
GenerateLoop(w, step) ==
    IF step <= w.total_steps THEN GenerateLoop(GenerateStep(w), step + 1) ELSE w

\* generate() without its path_.waypoints.clear().
GenerateStartNoClear(w) ==
    LET s == IF w.config.random_start
             THEN GetRandomStartpoint(w)
             ELSE [point |-> Origin, rng |-> w.rng]
    IN  [w EXCEPT !.path = Append(@, s.point), !.rng = s.rng]

\* generate() rewinding the stream to where the constructor left it.
GenerateStartRewound(w) ==
    LET r == Advance(SeedRng(w.config.seed), 2)
        s == IF w.config.random_start
             THEN GetRandomStartpoint([w EXCEPT !.rng = r])
             ELSE [point |-> Origin, rng |-> r]
    IN  [w EXCEPT !.path = <<s.point>>, !.rng = s.rng]

\* generate() up to its loop: the path cleared, the start pose pushed.
GenerateStart(w) ==
    LET s == IF w.config.random_start
             THEN GetRandomStartpoint(w)
             ELSE [point |-> Origin, rng |-> w.rng]
    IN  [w EXCEPT !.path = <<s.point>>, !.rng = s.rng]

GenerateW(w) == GenerateLoop(GenerateStart(w), 1)

\* Stream words one generate() call takes.
GenerateWords(w) == (IF w.config.random_start THEN 4 ELSE 0) + w.total_steps

GetSpeed(w) == w.walker_speed

\* The Fast band open at max_speed.
GetWalkerTypeOpenFast(w) ==
    LET range4 == 4 * FSub(w.config.max_speed, w.config.min_speed)
        threshold4 == range4 \div 4
        speed4 == 4 * w.walker_speed
        min4 == 4 * w.config.min_speed
        max4 == 4 * w.config.max_speed
    IN  IF speed4 < min4 + threshold4 THEN Slow
        ELSE IF speed4 >= min4 + threshold4 /\ speed4 < max4 - threshold4 THEN Normal
        ELSE IF speed4 >= max4 - threshold4 /\ speed4 < max4 THEN Fast
        ELSE Superhuman

GetWalkerType(w) ==
    LET range4 == 4 * FSub(w.config.max_speed, w.config.min_speed)
        \* quarter units, so that threshold = range * 0.25 is exact
        threshold4 == range4 \div 4
        speed4 == 4 * w.walker_speed
        min4 == 4 * w.config.min_speed
        max4 == 4 * w.config.max_speed
    IN  IF speed4 < min4 + threshold4 THEN Slow
        ELSE IF speed4 >= min4 + threshold4 /\ speed4 < max4 - threshold4 THEN Normal
        ELSE IF speed4 >= max4 - threshold4 /\ speed4 <= max4 THEN Fast
        ELSE Superhuman

GetStartPoint(w) == IF w.path = << >> THEN Origin ELSE w.path[1]

\* get_end_point() returning waypoints.front().
GetEndPointFront(w) == IF w.path = << >> THEN Origin ELSE w.path[1]

GetEndPoint(w) == IF w.path = << >> THEN Origin ELSE w.path[Len(w.path)]

\* set_seed without rng_.seed(seed).
SetSeedMembersNoReseed(w, seed) == [w EXCEPT !.config.seed = seed]

\* set_seed up to its init_speed() call.
SetSeedMembers(w, seed) == [w EXCEPT !.config.seed = seed, !.rng = SeedRng(seed)]

SetSeedW(w, seed) == InitSpeed(SetSeedMembers(w, seed))

\* set_speed_range reseeding the stream as set_seed does.
SetSpeedRangeMembersReseed(w, min_speed, max_speed) ==
    [w EXCEPT !.config.min_speed = min_speed, !.config.max_speed = max_speed,
              !.rng = SeedRng(w.config.seed)]

\* set_speed_range up to its init_speed() call.
SetSpeedRangeMembers(w, min_speed, max_speed) ==
    [w EXCEPT !.config.min_speed = min_speed, !.config.max_speed = max_speed]

SetSpeedRangeW(w, min_speed, max_speed) ==
    InitSpeed(SetSpeedRangeMembers(w, min_speed, max_speed))

SetMovePatternW(w, pattern) == [w EXCEPT !.config.move_pattern = pattern]

\* set_random_start discarding the path already generated.
SetRandomStartClearsPath(w, random_start) ==
    [w EXCEPT !.config.random_start = random_start, !.path = << >>]

SetRandomStartW(w, random_start) == [w EXCEPT !.config.random_start = random_start]

SetStartRangeFactorW(w, factor) == [w EXCEPT !.config.start_range_factor = factor]

GetTotalSteps(w) == w.total_steps

\* ---------------------------------------------- WalkSimulation, as code
\* The check of num_walkers accepting a simulation of no walkers.
NumWalkersInvalidStrict(num_walkers) == num_walkers < 0

\* The check the simulation's constructor makes of num_walkers.
NumWalkersInvalid(num_walkers) == num_walkers <= 0

\* Every walker given the base seed.
WalkerConfigSameSeed(config, i) == config

\* The config of walker i: the base config with seed + i.
WalkerConfig(config, i) == [config EXCEPT !.seed = config.seed + i]

\* The loop of the constructor.
RECURSIVE BuildWalkers(_, _, _, _)
BuildWalkers(total_steps, num_walkers, config, i) ==
    IF i < num_walkers
    THEN <<ConstructW(total_steps, WalkerConfig(config, i))>>
             \o BuildWalkers(total_steps, num_walkers, config, i + 1)
    ELSE << >>

\* WalkSimulation::WalkSimulation, past its two checks.
ConstructSim(total_steps, num_walkers, config) ==
    [total_steps |-> total_steps, num_walkers |-> num_walkers, config |-> config,
     walkers |-> BuildWalkers(total_steps, num_walkers, config, 0)]

\* generate() iterating over copies of the walkers (auto instead of auto &).
GenerateSimByValue(s) == s

\* WalkSimulation::generate: every walker, in sequence order.
GenerateSim(s) == [s EXCEPT !.walkers = [k \in DOMAIN s.walkers |-> GenerateW(s.walkers[k])]]

NumWalkers(s) == Len(s.walkers)

\* The index check rejecting the last walker as well.
GetWalkerInRangeOffByOne(s, index) == ~(index + 1 >= Len(s.walkers))

\* The index check of get_walker(size_t index).
GetWalkerInRange(s, index) == ~(index >= Len(s.walkers))

GetWalker(s, index) == s.walkers[index + 1]

\* Only the first walker's waypoints scanned.
WaypointsOfFirstWalker(s) == {s.walkers[1].path[j] : j \in DOMAIN s.walkers[1].path}

\* The waypoints get_bounds() iterates over.
Waypoints(s) ==
    UNION {{s.walkers[k].path[j] : j \in DOMAIN s.walkers[k].path} : k \in DOMAIN s.walkers}

\* std::min and std::max folded over a set of coordinates from a start value.
MinFrom(start, S) == CHOOSE m \in S \cup {start} : \A o \in S \cup {start} : m <= o

MaxFrom(start, S) == CHOOSE m \in S \cup {start} : \A o \in S \cup {start} : m >= o

Box(center, size) == [center |-> center, size |-> size]

\* WalkSimulation::get_bounds.
GetBounds(s) ==
    IF s.walkers = << >> THEN Box([x |-> Half(0), y |-> Half(0), z |-> 0], Origin)
    ELSE LET min_x == MinFrom(DblMax, {p.x : p \in Waypoints(s)})
             max_x == MaxFrom(-DblMax, {p.x : p \in Waypoints(s)})
             min_y == MinFrom(DblMax, {p.y : p \in Waypoints(s)})
             max_y == MaxFrom(-DblMax, {p.y : p \in Waypoints(s)})
             center_x == Half(Overflow(FAdd(min_x, max_x)))
             center_y == Half(Overflow(FAdd(min_y, max_y)))
         IN  Box([x |-> center_x, y |-> center_y, z |-> 0],
                 [x |-> Overflow(FSub(max_x, min_x)),
                  y |-> Overflow(FSub(max_y, min_y)), z |-> 0])

\* ------------------------------------------------------------- inputs
Seeds == {0, 1, 5}
SpeedRanges == {<<Unit, 3 * Unit>>, <<0, 0>>, <<-Unit, -Unit>>}
Factors == {1, 512}
StepArgs == (-1)..MaxSteps

\* Configurations a caller constructs a walker with.
CtorConfigs ==
    {[WalkConfig(s) EXCEPT !.move_pattern = p, !.random_start = b] :
        s \in Seeds, p \in MovePatterns, b \in BOOLEAN}
    \cup {[WalkConfig(0) EXCEPT !.min_speed = r[1], !.max_speed = r[2]] : r \in SpeedRanges}

\* The smaller inputs of the two-walker specification.
PairSeeds == {0, 5}
PairConfigs == {[WalkConfig(s) EXCEPT !.random_start = b] : s \in PairSeeds, b \in BOOLEAN}

\* Base configurations and arguments a simulation is constructed with.
SimSeeds == {0, 1}
SimConfigs ==
    {[WalkConfig(s) EXCEPT !.random_start = b] : s \in SimSeeds, b \in BOOLEAN}
    \cup {[WalkConfig(0) EXCEPT !.min_speed = -Unit, !.max_speed = -Unit]}
NumArgs == (-1)..MaxWalkers
IndexArgs == 0..(MaxWalkers + 1)

\* -------------------------------------------------------------- calls
Exists(i) == i \in DOMAIN walkers

SimExists == sim # << >>

\* No side-by-side generation of the simulation's walkers is under way.
Idle == pc = << >>

Put(f, i, v) == [j \in DOMAIN f \cup {i} |-> IF j = i THEN v ELSE f[j]]

Returned(op, who, args, status, value) ==
    [op |-> op, who |-> who, args |-> args, status |-> status, value |-> value]

Init ==
    /\ walkers = << >>
    /\ calls = << >>
    /\ sim = << >>
    /\ simcalls = << >>
    /\ ret = Returned("none", 0, << >>, "ok", << >>)
    /\ crashed = FALSE
    /\ pc = << >>

\* A call on walker i that leaves it as w2.
Called(i, op, args, w2) ==
    /\ walkers' = [walkers EXCEPT ![i] = w2]
    /\ calls' = [calls EXCEPT ![i] = Append(@, op)]
    /\ ret' = Returned(op, i, args, "ok", << >>)
    /\ UNCHANGED <<sim, simcalls, crashed, pc>>

\* std::abort() in a library precondition check: the process ends, and its
\* objects with it.
Abort(op, who, args) ==
    /\ walkers' = << >>
    /\ calls' = << >>
    /\ sim' = << >>
    /\ simcalls' = << >>
    /\ ret' = Returned(op, who, args, "aborted", << >>)
    /\ crashed' = TRUE
    /\ pc' = << >>

\* A call on walker i that stops in init_speed(), the members being m:
\* uniform_real_distribution(a, b) with b < a is undefined, and a build with
\* library assertions aborts there.
Aborted(i, op, args, m) ==
    /\ ~SpeedDrawDefined(m.config)
    /\ Abort(op, i, args)

CanCall(i, max_ops) == ~crashed /\ Exists(i) /\ Len(calls[i]) < max_ops

\* RandomWalk w(total_steps, config);
Construct(i, total_steps, config) ==
    /\ ~crashed
    /\ ~Exists(i)
    /\ \/ /\ StepsInvalid(total_steps)
          /\ ret' = Returned("RandomWalk", i, <<total_steps>>, "invalid_argument", << >>)
          /\ UNCHANGED <<walkers, calls, crashed, sim, simcalls, pc>>
       \/ /\ ~StepsInvalid(total_steps)
          /\ walkers' = Put(walkers, i, ConstructW(total_steps, config))
          /\ calls' = Put(calls, i, << >>)
          /\ ret' = Returned("RandomWalk", i, <<total_steps>>, "ok", << >>)
          /\ UNCHANGED <<crashed, pc>>
          /\ UNCHANGED <<sim, simcalls>>
       \/ /\ ~StepsInvalid(total_steps)
          /\ ~SpeedDrawDefined(config)
          /\ Abort("RandomWalk", i, <<total_steps>>)

Generate(i, max_ops) ==
    /\ CanCall(i, max_ops)
    /\ Has(walkers[i].rng, GenerateWords(walkers[i]))
    /\ Called(i, "generate", << >>, GenerateW(walkers[i]))

SetSeed(i, max_ops, seed) ==
    /\ CanCall(i, max_ops)
    /\ \/ Called(i, "set_seed", <<seed>>, SetSeedW(walkers[i], seed))
       \/ Aborted(i, "set_seed", <<seed>>, SetSeedMembers(walkers[i], seed))

SetSpeedRange(i, max_ops, min_speed, max_speed) ==
    /\ CanCall(i, max_ops)
    /\ Has(walkers[i].rng, 2)
    /\ \/ Called(i, "set_speed_range", <<min_speed, max_speed>>,
                 SetSpeedRangeW(walkers[i], min_speed, max_speed))
       \/ Aborted(i, "set_speed_range", <<min_speed, max_speed>>,
                  SetSpeedRangeMembers(walkers[i], min_speed, max_speed))

SetMovePattern(i, max_ops, pattern) ==
    /\ CanCall(i, max_ops)
    /\ Called(i, "set_move_pattern", <<pattern>>, SetMovePatternW(walkers[i], pattern))

SetRandomStart(i, max_ops, random_start) ==
    /\ CanCall(i, max_ops)
    /\ Called(i, "set_random_start", <<random_start>>,
              SetRandomStartW(walkers[i], random_start))

SetStartRangeFactor(i, max_ops, factor) ==
    /\ CanCall(i, max_ops)
    /\ Called(i, "set_start_range_factor", <<factor>>,
              SetStartRangeFactorW(walkers[i], factor))

\* get_walker_type() const
GetWalkerTypeCall(i) ==
    /\ ~crashed
    /\ Exists(i)
    /\ ret' = Returned("get_walker_type", i, << >>, "ok", GetWalkerType(walkers[i]))
    /\ UNCHANGED <<walkers, calls, sim, simcalls, crashed, pc>>

\* get_start_point() const
GetStartPointCall(i) ==
    /\ ~crashed
    /\ Exists(i)
    /\ ret' = Returned("get_start_point", i, << >>, "ok", GetStartPoint(walkers[i]))
    /\ UNCHANGED <<walkers, calls, sim, simcalls, crashed, pc>>

\* get_end_point() const
GetEndPointCall(i) ==
    /\ ~crashed
    /\ Exists(i)
    /\ ret' = Returned("get_end_point", i, << >>, "ok", GetEndPoint(walkers[i]))
    /\ UNCHANGED <<walkers, calls, sim, simcalls, crashed, pc>>

\* WalkSimulation sim(total_steps, num_walkers, config);
SimConstruct(total_steps, num_walkers, config) ==
    /\ ~crashed
    /\ ~SimExists
    /\ \/ /\ StepsInvalid(total_steps)
          /\ ret' = Returned("WalkSimulation", 0, <<total_steps, num_walkers>>,
                             "invalid_argument", << >>)
          /\ UNCHANGED <<sim, simcalls, crashed, walkers, calls, pc>>
       \/ /\ ~StepsInvalid(total_steps)
          /\ NumWalkersInvalid(num_walkers)
          /\ ret' = Returned("WalkSimulation", 0, <<total_steps, num_walkers>>,
                             "invalid_argument", << >>)
          /\ UNCHANGED <<sim, simcalls, crashed, walkers, calls, pc>>
       \/ /\ ~StepsInvalid(total_steps)
          /\ ~NumWalkersInvalid(num_walkers)
          /\ sim' = <<ConstructSim(total_steps, num_walkers, config)>>
          /\ simcalls' = << >>
          /\ ret' = Returned("WalkSimulation", 0, <<total_steps, num_walkers>>, "ok", << >>)
          /\ UNCHANGED <<crashed, pc>>
          /\ UNCHANGED <<walkers, calls>>
       \/ /\ ~StepsInvalid(total_steps)
          /\ ~NumWalkersInvalid(num_walkers)
          /\ ~SpeedDrawDefined(config)
          /\ Abort("WalkSimulation", 0, <<total_steps, num_walkers>>)

SimGenerate ==
    /\ ~crashed
    /\ SimExists
    /\ Idle
    /\ Len(simcalls) < MaxSimOps
    /\ \A k \in DOMAIN sim[1].walkers :
          Has(sim[1].walkers[k].rng, GenerateWords(sim[1].walkers[k]))
    /\ sim' = <<GenerateSim(sim[1])>>
    /\ simcalls' = Append(simcalls, "generate")
    /\ ret' = Returned("sim.generate", 0, << >>, "ok", << >>)
    /\ UNCHANGED <<walkers, calls, crashed, pc>>

\* get_walker(index): the walker referred to, or std::out_of_range.
SimGetWalker(index) ==
    /\ ~crashed
    /\ SimExists
    /\ Idle
    /\ \/ /\ ~GetWalkerInRange(sim[1], index)
          /\ ret' = Returned("get_walker", 0, <<index>>, "out_of_range", << >>)
       \/ /\ GetWalkerInRange(sim[1], index)
          /\ ret' = Returned("get_walker", 0, <<index>>, "ok", GetWalker(sim[1], index))
    /\ UNCHANGED <<walkers, calls, sim, simcalls, crashed, pc>>

SimNumWalkers ==
    /\ ~crashed
    /\ SimExists
    /\ Idle
    /\ ret' = Returned("num_walkers", 0, << >>, "ok", NumWalkers(sim[1]))
    /\ UNCHANGED <<walkers, calls, sim, simcalls, crashed, pc>>

\* get_bounds() const
SimGetBounds ==
    /\ ~crashed
    /\ SimExists
    /\ Idle
    /\ ret' = Returned("get_bounds", 0, << >>, "ok", GetBounds(sim[1]))
    /\ UNCHANGED <<walkers, calls, sim, simcalls, crashed, pc>>

\* The walkers generated side by side, each by a process of its own: every
\* process runs RandomWalk::generate() on its walker, one step at a time.
ParBegin ==
    /\ ~crashed
    /\ SimExists
    /\ Idle
    /\ Len(simcalls) < MaxSimOps
    /\ \A k \in DOMAIN sim[1].walkers :
          Has(sim[1].walkers[k].rng, GenerateWords(sim[1].walkers[k]))
    /\ pc' = [k \in DOMAIN sim[1].walkers |-> 0]
    /\ ret' = Returned("sim.generate", 0, << >>, "started", << >>)
    /\ UNCHANGED <<walkers, calls, sim, simcalls, crashed>>

\* The next step of walker k's generate(): the start pose, or one iteration
\* of the loop.
ParStep(k) ==
    /\ ~crashed
    /\ ~Idle
    /\ k \in DOMAIN pc
    /\ pc[k] <= sim[1].total_steps
    /\ sim' = <<[sim[1] EXCEPT !.walkers[k] =
                    IF pc[k] = 0 THEN GenerateStart(@) ELSE GenerateStep(@)]>>
    /\ pc' = [pc EXCEPT ![k] = @ + 1]
    /\ UNCHANGED <<walkers, calls, simcalls, ret, crashed>>

\* Every process has left its loop.
ParEnd ==
    /\ ~crashed
    /\ ~Idle
    /\ \A k \in DOMAIN pc : pc[k] = sim[1].total_steps + 1
    /\ pc' = << >>
    /\ simcalls' = Append(simcalls, "generate")
    /\ ret' = Returned("sim.generate", 0, << >>, "ok", << >>)
    /\ UNCHANGED <<walkers, calls, sim, crashed>>

\* ----------------------------------------------------- specifications
\* One walker and every member function that changes it.
WalkerNext(i) ==
    \/ \E n \in StepArgs, c \in CtorConfigs : Construct(i, n, c)
    \/ Generate(i, MaxOps)
    \/ \E s \in Seeds : SetSeed(i, MaxOps, s)
    \/ \E r \in SpeedRanges : SetSpeedRange(i, MaxOps, r[1], r[2])
    \/ \E p \in MovePatterns : SetMovePattern(i, MaxOps, p)
    \/ \E b \in BOOLEAN : SetRandomStart(i, MaxOps, b)
    \/ \E f \in Factors : SetStartRangeFactor(i, MaxOps, f)

Next == WalkerNext(1)

Spec == Init /\ [][Next]_vars

\* Two walkers side by side, on smaller inputs.
PairWalkerNext(i) ==
    \/ \E n \in 1..MaxSteps, c \in PairConfigs : Construct(i, n, c)
    \/ Generate(i, MaxPairOps)
    \/ \E p \in MovePatterns : SetMovePattern(i, MaxPairOps, p)

NextPair == \E i \in {1, 2} : PairWalkerNext(i)

SpecPair == Init /\ [][NextPair]_vars

\* A simulation, and the construction of a standalone walker beside it.
NextSim ==
    \/ \E n \in StepArgs, k \in NumArgs, c \in SimConfigs : SimConstruct(n, k, c)
    \/ SimGenerate
    \/ \E x \in IndexArgs : SimGetWalker(x)
    \/ SimNumWalkers
    \/ SimGetBounds
    \/ \E n \in StepArgs, c \in CtorConfigs : Construct(1, n, c)

SpecSim == Init /\ [][NextSim]_vars

\* A simulation and a standalone walker built like one of its walkers.
FanConfigs == {WalkerConfig(c, i) : c \in SimConfigs, i \in 0..(MaxWalkers - 1)}

NextFan ==
    \/ \E n \in 1..MaxSteps, k \in 1..MaxWalkers, c \in SimConfigs : SimConstruct(n, k, c)
    \/ SimGenerate
    \/ \E n \in 1..MaxSteps, c \in FanConfigs : Construct(1, n, c)
    \/ Generate(1, MaxSimOps)

SpecFan == Init /\ [][NextFan]_vars

\* A simulation whose walkers are generated in sequence or side by side.
NextPar ==
    \/ \E n \in 1..MaxSteps, k \in 1..MaxWalkers, c \in SimConfigs : SimConstruct(n, k, c)
    \/ SimGenerate
    \/ ParBegin
    \/ \E k \in 1..MaxWalkers : ParStep(k)
    \/ ParEnd
    \/ SimGetBounds

SpecPar == Init /\ [][NextPar]_vars

\* One walker, its generate() and its point readers.
NextGet ==
    \/ \E n \in StepArgs, c \in CtorConfigs : Construct(1, n, c)
    \/ Generate(1, MaxPairOps)
    \/ GetStartPointCall(1)
    \/ GetEndPointCall(1)

SpecGet == Init /\ [][NextGet]_vars

\* get_walker_type() on a walker of any speed its distribution can yield.
ClassifyRanges == SpeedRanges \cup {<<0, 8>>, <<4, 9>>, <<8, 0>>}

Between(a, b) == IF a <= b THEN a..b ELSE b..a

InitClassify ==
    /\ \E r \in ClassifyRanges :
          LET c == [WalkConfig(0) EXCEPT !.min_speed = r[1], !.max_speed = r[2]]
          IN  \E v \in Between(r[1], SpeedUpper(c)) :
                 walkers = Put(<< >>, 1, [ConstructW(1, c) EXCEPT !.walker_speed = v])
    /\ calls = Put(<< >>, 1, << >>)
    /\ sim = << >>
    /\ simcalls = << >>
    /\ ret = Returned("RandomWalk", 1, <<1>>, "ok", << >>)
    /\ crashed = FALSE
    /\ pc = << >>

NextClassify == GetWalkerTypeCall(1)

SpecClassify == InitClassify /\ [][NextClassify]_vars

\* ------------------------------------------------------------- claims
Last(q) == q[Len(q)]

JustCalled(i, op) == Exists(i) /\ calls[i] # << >> /\ Last(calls[i]) = op

NeverCalled(i, op) == \A k \in DOMAIN calls[i] : calls[i][k] # op

\* C1: the path is empty until the first generate(), and right after every
\* generate() call, first or repeated, it holds total_steps + 1 waypoints.
C1_PathLength ==
    \A i \in DOMAIN walkers :
        /\ walkers[i].total_steps > 0
        /\ NeverCalled(i, "generate") => walkers[i].path = << >>
        /\ JustCalled(i, "generate") => Len(walkers[i].path) = walkers[i].total_steps + 1

\* A repeated generate(), after a setter, on a walker of more than one step.
C1_Witness ==
    \E i \in DOMAIN walkers :
        /\ Len(calls[i]) = 3
        /\ calls[i][1] = "generate" /\ calls[i][2] # "generate" /\ calls[i][3] = "generate"
        /\ walkers[i].total_steps >= 2
        /\ Len(walkers[i].path) = walkers[i].total_steps + 1

\* C2: two walkers constructed with the same total_steps and WalkConfig, each
\* with exactly one generate() and no setter call, have equal speeds and
\* equal paths.
C2_Determinism ==
    (/\ Exists(1) /\ Exists(2)
     /\ calls[1] = <<"generate">> /\ calls[2] = <<"generate">>
     /\ walkers[1].total_steps = walkers[2].total_steps
     /\ walkers[1].config = walkers[2].config)
    => /\ walkers[1].walker_speed = walkers[2].walker_speed
       /\ walkers[1].path = walkers[2].path

\* Two such walkers, their paths generated from a random start.
C2_Witness ==
    /\ Exists(1) /\ Exists(2)
    /\ calls[1] = <<"generate">> /\ calls[2] = <<"generate">>
    /\ walkers[1].total_steps = walkers[2].total_steps
    /\ walkers[1].config = walkers[2].config
    /\ walkers[1].config.random_start
    /\ Len(walkers[1].path) = walkers[1].total_steps + 1
    /\ walkers[1].path = walkers[2].path

\* A generate() call on walker i directly after another generate() call.
GenerateAgain(i) ==
    /\ Exists(i) /\ JustCalled(i, "generate")
    /\ i \in DOMAIN calls' /\ calls'[i] = Append(calls[i], "generate")

\* C3 as claimed: a generate() directly after a generate(), with no reseeding
\* in between, produces a path different from the one it replaces.
C3_SecondPathDiffers ==
    [][\A i \in DOMAIN walkers : GenerateAgain(i) => walkers'[i].path # walkers[i].path]_vars

\* C3 as amended: such a second generate() continues the stream: it keeps the
\* seed and takes the words that follow those already taken, whatever path
\* they give.
C3_StreamContinues ==
    [][\A i \in DOMAIN walkers :
          GenerateAgain(i) =>
              /\ walkers'[i].rng.seed = walkers[i].rng.seed
              /\ walkers'[i].rng.pos = walkers[i].rng.pos + GenerateWords(walkers[i])
              /\ walkers'[i].rng.pos > walkers[i].rng.pos]_vars

\* Two generate() calls in a row, the stream 2 * GenerateWords past the
\* constructor's draw.
C3_Witness ==
    \E i \in DOMAIN walkers :
        /\ calls[i] = <<"generate", "generate">>
        /\ walkers[i].rng.pos = 2 + 2 * GenerateWords(walkers[i])

\* What a fresh walker of w's total_steps and current config generates.
FreshGenerated(w) == GenerateW(ConstructW(w.total_steps, w.config))

SeedThenGenerate(i) ==
    /\ Exists(i) /\ Len(calls[i]) >= 2
    /\ calls[i][Len(calls[i]) - 1] = "set_seed" /\ Last(calls[i]) = "generate"

\* C4: in any reachable state, set_seed(s) directly followed by generate()
\* leaves the speed and the path of a freshly constructed walker with the
\* same total_steps and the current config (seed s) after one generate().
C4_SeedReproduces ==
    \A i \in DOMAIN walkers :
        SeedThenGenerate(i) =>
            /\ walkers[i].walker_speed = FreshGenerated(walkers[i]).walker_speed
            /\ walkers[i].path = FreshGenerated(walkers[i]).path

\* set_seed; generate on a walker that had already generated a path.
C4_Witness ==
    \E i \in DOMAIN walkers :
        /\ calls[i] = <<"generate", "set_seed", "generate">>
        /\ walkers[i].path = FreshGenerated(walkers[i]).path
        /\ Len(walkers[i].path) >= 2

\* max_speed * 1.025, in units.
Mul1025(x) ==
    LET m == Abs(x)
        v == RoundHalfEven(41 * m, Unit)
    IN  Fl(IF x < 0 THEN -v ELSE v)

\* C5 as claimed: whenever min_speed <= max_speed, the speed lies in
\* [min_speed, max_speed * 1.025].
C5_SpeedInRange ==
    \A i \in DOMAIN walkers :
        walkers[i].config.min_speed <= walkers[i].config.max_speed =>
            /\ walkers[i].config.min_speed <= GetSpeed(walkers[i])
            /\ GetSpeed(walkers[i]) <= Mul1025(walkers[i].config.max_speed)

\* C5 as amended: whenever min_speed <= max_speed + 0.025 * max_speed (as it
\* is for 0 <= min_speed <= max_speed), the speed lies in
\* [min_speed, max_speed + 0.025 * max_speed].
C5_SpeedInDrawnRange ==
    \A i \in DOMAIN walkers :
        walkers[i].config.min_speed <= SpeedUpper(walkers[i].config) =>
            /\ walkers[i].config.min_speed <= GetSpeed(walkers[i])
            /\ GetSpeed(walkers[i]) <= SpeedUpper(walkers[i].config)

\* A speed in the superhuman band, redrawn by set_speed_range after a path
\* was generated.
C5_Witness ==
    \E i \in DOMAIN walkers :
        /\ JustCalled(i, "set_speed_range")
        /\ \E k \in DOMAIN calls[i] : calls[i][k] = "generate"
        /\ GetSpeed(walkers[i]) > walkers[i].config.max_speed
        /\ GetSpeed(walkers[i]) <= SpeedUpper(walkers[i].config)

\* The steps the pattern allows a walker of the given speed.
CardinalSteps(speed) ==
    {<<0, speed>>, <<speed, 0>>, <<0, -speed>>, <<-speed, 0>>}

DiagonalSteps(speed) ==
    {<<speed, speed>>, <<speed, -speed>>, <<-speed, -speed>>, <<-speed, speed>>}

AllowedSteps(pattern, speed) ==
    IF pattern = Neumann THEN CardinalSteps(speed)
    ELSE CardinalSteps(speed) \cup DiagonalSteps(speed)

\* C6 as claimed: right after generate() with speed > 0, consecutive waypoints
\* differ by 0 or exactly speed on x and on y and not on z; exactly one axis
\* differs under Neumann, at least one under Moore.
C6_StepsExact ==
    \A i \in DOMAIN walkers :
        (JustCalled(i, "generate") /\ GetSpeed(walkers[i]) > 0) =>
            \A k \in 1..(Len(walkers[i].path) - 1) :
                LET p == walkers[i].path[k]
                    q == walkers[i].path[k + 1]
                    ax == Abs(q.x - p.x)
                    ay == Abs(q.y - p.y)
                IN  /\ ax \in {0, GetSpeed(walkers[i])}
                    /\ ay \in {0, GetSpeed(walkers[i])}
                    /\ q.z = p.z
                    /\ walkers[i].config.move_pattern = Neumann => (ax = 0) # (ay = 0)
                    /\ walkers[i].config.move_pattern = Moore => (ax # 0 \/ ay # 0)

\* C6 as amended: each waypoint is the previous one plus a step (dx, dy, 0)
\* the pattern allows, dx and dy each 0 or +-speed, each coordinate sum
\* rounded to the nearest double; under Neumann exactly one of dx, dy is not
\* zero, under Moore at least one.
C6_StepsRounded ==
    \A i \in DOMAIN walkers :
        (JustCalled(i, "generate") /\ GetSpeed(walkers[i]) > 0) =>
            \A k \in 1..(Len(walkers[i].path) - 1) :
                LET p == walkers[i].path[k]
                    q == walkers[i].path[k + 1]
                IN  \E d \in AllowedSteps(walkers[i].config.move_pattern,
                                          GetSpeed(walkers[i])) :
                        /\ q.x = FAdd(p.x, d[1])
                        /\ q.y = FAdd(p.y, d[2])
                        /\ q.z = p.z

\* A Neumann walk of two steps, and a Moore walk with a diagonal step that
\* moves by exactly speed on both axes.
C6_Witness ==
    \E i \in DOMAIN walkers :
        /\ JustCalled(i, "generate") /\ GetSpeed(walkers[i]) > 0
        /\ walkers[i].config.move_pattern = Moore
        /\ \E k \in 1..(Len(walkers[i].path) - 1) :
              /\ Abs(walkers[i].path[k + 1].x - walkers[i].path[k].x) = GetSpeed(walkers[i])
              /\ Abs(walkers[i].path[k + 1].y - walkers[i].path[k].y) = GetSpeed(walkers[i])

\* The bands of the classification, in quarter units (threshold is a quarter
\* of max_speed - min_speed).
LowEdge4(c) == 4 * c.min_speed + (c.max_speed - c.min_speed)
HighEdge4(c) == 4 * c.max_speed - (c.max_speed - c.min_speed)
InSlow(w) == 4 * w.walker_speed < LowEdge4(w.config)
InNormal(w) == LowEdge4(w.config) <= 4 * w.walker_speed /\ 4 * w.walker_speed < HighEdge4(w.config)
InFast(w) == HighEdge4(w.config) <= 4 * w.walker_speed /\ w.walker_speed <= w.config.max_speed

\* C7: get_walker_type returns Slow, Normal or Fast exactly in their bands and
\* Superhuman otherwise; when max_speed > min_speed the bands do not overlap,
\* leave no gap in [min_speed, upper end of the distribution], and Superhuman
\* is returned exactly for speed > max_speed.
C7_Classification ==
    ret.op = "get_walker_type" =>
        LET w == walkers[ret.who]
            t == ret.value
        IN  /\ t \in {Slow, Normal, Fast, Superhuman}
            /\ (t = Slow) <=> InSlow(w)
            /\ (t = Normal) <=> InNormal(w)
            /\ (t = Fast) <=> InFast(w)
            /\ (t = Superhuman) <=> ~(InSlow(w) \/ InNormal(w) \/ InFast(w))
            /\ w.config.max_speed > w.config.min_speed =>
                  /\ ~(InSlow(w) /\ InNormal(w))
                  /\ ~(InSlow(w) /\ InFast(w))
                  /\ ~(InNormal(w) /\ InFast(w))
                  /\ (t = Superhuman) <=> (w.walker_speed > w.config.max_speed)
                  /\ (w.config.min_speed <= w.walker_speed
                        /\ w.walker_speed <= w.config.max_speed)
                         => (InSlow(w) \/ InNormal(w) \/ InFast(w))

\* The closed upper boundary of the Fast band: speed = max_speed > min_speed.
C7_Witness ==
    /\ ret.op = "get_walker_type"
    /\ ret.value = Fast
    /\ walkers[ret.who].walker_speed = walkers[ret.who].config.max_speed
    /\ walkers[ret.who].config.max_speed > walkers[ret.who].config.min_speed

\* C8: RandomWalk(total_steps, ...) fails with invalid_argument iff
\* total_steps <= 0, WalkSimulation(total_steps, num_walkers, ...) iff
\* total_steps <= 0 or num_walkers <= 0; a failed construction leaves no
\* object, and every object that exists has total_steps > 0.
C8_ConstructionFails ==
    /\ ret.op = "RandomWalk" =>
          /\ (ret.status = "invalid_argument") <=> (ret.args[1] <= 0)
          /\ ret.status = "invalid_argument" => ~Exists(ret.who)
    /\ ret.op = "WalkSimulation" =>
          /\ (ret.status = "invalid_argument") <=> (ret.args[1] <= 0 \/ ret.args[2] <= 0)
          /\ ret.status = "invalid_argument" => ~SimExists
    /\ \A i \in DOMAIN walkers : walkers[i].total_steps > 0
    /\ SimExists =>
          /\ sim[1].total_steps > 0
          /\ sim[1].num_walkers > 0
          /\ Len(sim[1].walkers) = sim[1].num_walkers
          /\ \A k \in DOMAIN sim[1].walkers : sim[1].walkers[k].total_steps > 0

\* A simulation refused for its num_walkers alone, beside a walker that was
\* built.
C8_Witness ==
    /\ ret.op = "WalkSimulation" /\ ret.status = "invalid_argument"
    /\ ret.args[1] > 0 /\ ret.args[2] = 0
    /\ ~SimExists
    /\ Exists(1)

C9_State ==
    /\ ret.op = "get_walker" =>
          /\ SimExists
          /\ (ret.status = "out_of_range") <=> (ret.args[1] >= sim[1].num_walkers)
          /\ ret.status # "out_of_range" =>
                /\ ret.status = "ok"
                /\ ret.value = sim[1].walkers[ret.args[1] + 1]
    /\ ret.op = "num_walkers" => ret.value = sim[1].num_walkers
    /\ SimExists => Len(sim[1].walkers) = sim[1].num_walkers

\* C9: get_walker(index) raises out_of_range iff index >= n and else returns
\* the walker at that position; the call changes no walker; num_walkers() is n
\* after any sequence of generate, get_walker and get_bounds calls.
C9_GetWalker ==
    [][/\ C9_State'
       /\ ret'.op \in {"get_walker", "num_walkers", "get_bounds"} =>
             (sim' = sim /\ walkers' = walkers)]_vars

\* get_walker(n) refused on a generated simulation of n >= 2 walkers.
C9_Witness ==
    /\ ret.op = "get_walker" /\ ret.status = "out_of_range"
    /\ SimExists /\ ret.args[1] = sim[1].num_walkers
    /\ sim[1].num_walkers >= 2
    /\ simcalls # << >>

\* C10: a simulation built with (total_steps, num_walkers, config) holds
\* num_walkers walkers, the one at index i with seed config.seed + i and
\* otherwise the base total_steps and configuration; so the seeds are pairwise
\* distinct.
C10_Seeds ==
    SimExists =>
        LET s == sim[1] IN
        /\ Len(s.walkers) = s.num_walkers
        /\ \A i \in 0..(s.num_walkers - 1) :
              /\ s.walkers[i + 1].config.seed = s.config.seed + i
              /\ s.walkers[i + 1].rng.seed = s.config.seed + i
              /\ s.walkers[i + 1].config = [s.config EXCEPT !.seed = s.config.seed + i]
              /\ s.walkers[i + 1].total_steps = s.total_steps
        /\ \A i, j \in DOMAIN s.walkers :
              i # j => s.walkers[i].config.seed # s.walkers[j].config.seed

\* A simulation of three walkers on base seed 1, generated.
C10_Witness ==
    /\ SimExists
    /\ sim[1].num_walkers = 3 /\ sim[1].config.seed = 1
    /\ sim[1].walkers[3].config.seed = 3
    /\ simcalls # << >>

\* Walker 1 was built and generated like the walker at index i of the
\* simulation.
StandaloneOf(i) ==
    /\ SimExists /\ Exists(1)
    /\ i < sim[1].num_walkers
    /\ walkers[1].total_steps = sim[1].total_steps
    /\ walkers[1].config = [sim[1].config EXCEPT !.seed = sim[1].config.seed + i]
    /\ Len(calls[1]) = Len(simcalls)
    /\ \A k \in DOMAIN calls[1] : calls[1][k] = "generate"

\* C11: after construction and k calls of WalkSimulation::generate(), walker
\* i has the speed and the path of a standalone RandomWalk(total_steps,
\* config with seed + i) after k generate() calls; after any
\* WalkSimulation::generate() every path has total_steps + 1 waypoints.
C11_FanOut ==
    /\ \A i \in 0..(MaxWalkers - 1) :
          StandaloneOf(i) =>
              /\ GetSpeed(sim[1].walkers[i + 1]) = GetSpeed(walkers[1])
              /\ sim[1].walkers[i + 1].path = walkers[1].path
    /\ (SimExists /\ simcalls # << >>) =>
          \A k \in DOMAIN sim[1].walkers :
              Len(sim[1].walkers[k].path) = sim[1].total_steps + 1

\* The second walker of a simulation generated twice, beside its standalone
\* twin generated twice.
C11_Witness ==
    /\ StandaloneOf(1)
    /\ Len(simcalls) = 2
    /\ walkers[1].path # << >>
    /\ sim[1].walkers[2].path = walkers[1].path

RECURSIVE GenerateTimes(_, _)
GenerateTimes(s, k) == IF k = 0 THEN s ELSE GenerateTimes(GenerateSim(s), k - 1)

\* The simulation as k sequential, index-order generate() calls leave it.
Sequential(k) ==
    GenerateTimes(ConstructSim(sim[1].total_steps, sim[1].num_walkers, sim[1].config), k)

\* C12: however the steps of the walkers' processes interleave, a walker
\* whose process has finished (and every walker once all have) has the speed
\* and path the sequential index-order generate() gives it, a walker whose
\* process has not started is untouched, and get_bounds() taken afterwards
\* returns the sequential result.
C12_Independent ==
    SimExists =>
        /\ \A k \in DOMAIN sim[1].walkers :
              /\ (Idle \/ pc[k] = 0) =>
                    /\ GetSpeed(sim[1].walkers[k]) = GetSpeed(Sequential(Len(simcalls)).walkers[k])
                    /\ sim[1].walkers[k].path = Sequential(Len(simcalls)).walkers[k].path
              /\ (~Idle /\ pc[k] = sim[1].total_steps + 1) =>
                    /\ GetSpeed(sim[1].walkers[k])
                          = GetSpeed(Sequential(Len(simcalls) + 1).walkers[k])
                    /\ sim[1].walkers[k].path = Sequential(Len(simcalls) + 1).walkers[k].path
        /\ ret.op = "get_bounds" => ret.value = GetBounds(Sequential(Len(simcalls)))

\* The last walker's process has finished while the first one is in the
\* middle of its loop and the second has not started.
C12_Witness ==
    /\ SimExists /\ ~Idle
    /\ sim[1].num_walkers = 3 /\ sim[1].total_steps = 2
    /\ pc[3] = 3 /\ pc[1] = 2 /\ pc[2] = 0
    /\ sim[1].walkers[3].path = Sequential(Len(simcalls) + 1).walkers[3].path

\* get_bounds() has just returned on a simulation that was generated.
BoundsTaken == ret.op = "get_bounds" /\ SimExists /\ simcalls # << >>

\* The coordinates of every waypoint of every walker.
AllPoints == UNION {{sim[1].walkers[k].path[j] : j \in DOMAIN sim[1].walkers[k].path} :
                       k \in DOMAIN sim[1].walkers}

IsMin(m, S) == m \in S /\ \A o \in S : m <= o
IsMax(m, S) == m \in S /\ \A o \in S : m >= o

\* Size and center on one axis are those of the extents mn, mx; the size is
\* not negative and the center lies within [mn, mx].
AxisBox(center, size, mn, mx) ==
    /\ size = FSub(mx, mn)
    /\ center = Half(FAdd(mn, mx))
    /\ size >= 0
    /\ center.den * mn <= center.num /\ center.num <= center.den * mx

\* The coordinate v lies within center -+ size / 2.
AxisInside(center, size, v) ==
    /\ 2 * center.num - center.den * size <= 2 * center.den * v
    /\ 2 * center.den * v <= 2 * center.num + center.den * size

\* The same with each side moved outwards by the rounding error of the two
\* sums: half the spacing of doubles at min + max and at max - min.
AxisInsideRounded(center, size, v) ==
    LET slack == Quantum(Abs(center.num), 1) + Quantum(Abs(size), 1)
    IN  /\ 2 * (2 * center.num - center.den * size) - center.den * slack
              <= 4 * center.den * v
        /\ 4 * center.den * v
              <= 2 * (2 * center.num + center.den * size) + center.den * slack

\* C13 as claimed: after generate(), get_bounds() returns size (max_x - min_x,
\* max_y - min_y, 0) and center ((min_x + max_x)/2, (min_y + max_y)/2, 0) over
\* all waypoints of all walkers, the size is not negative, the center lies
\* within [min, max], and every waypoint lies inside the box.
C13_BoxContains ==
    BoundsTaken =>
        LET b == ret.value IN
        /\ \E mn, mx \in {p.x : p \in AllPoints} :
              /\ IsMin(mn, {p.x : p \in AllPoints}) /\ IsMax(mx, {p.x : p \in AllPoints})
              /\ AxisBox(b.center.x, b.size.x, mn, mx)
        /\ \E mn, mx \in {p.y : p \in AllPoints} :
              /\ IsMin(mn, {p.y : p \in AllPoints}) /\ IsMax(mx, {p.y : p \in AllPoints})
              /\ AxisBox(b.center.y, b.size.y, mn, mx)
        /\ b.center.z = 0 /\ b.size.z = 0
        /\ \A p \in AllPoints :
              /\ AxisInside(b.center.x, b.size.x, p.x)
              /\ AxisInside(b.center.y, b.size.y, p.y)

\* C13 as amended: the same, every waypoint lying inside the box up to the
\* rounding of min + max and max - min.
C13_BoxContainsRounded ==
    BoundsTaken =>
        LET b == ret.value IN
        /\ \E mn, mx \in {p.x : p \in AllPoints} :
              /\ IsMin(mn, {p.x : p \in AllPoints}) /\ IsMax(mx, {p.x : p \in AllPoints})
              /\ AxisBox(b.center.x, b.size.x, mn, mx)
        /\ \E mn, mx \in {p.y : p \in AllPoints} :
              /\ IsMin(mn, {p.y : p \in AllPoints}) /\ IsMax(mx, {p.y : p \in AllPoints})
              /\ AxisBox(b.center.y, b.size.y, mn, mx)
        /\ b.center.z = 0 /\ b.size.z = 0
        /\ \A p \in AllPoints :
              /\ AxisInsideRounded(b.center.x, b.size.x, p.x)
              /\ AxisInsideRounded(b.center.y, b.size.y, p.y)

\* The bounds of three generated walkers, one of whose waypoints lies outside
\* center -+ size / 2 on the x axis.
C13_Witness ==
    /\ BoundsTaken
    /\ sim[1].num_walkers = 3
    /\ ret.value.size.x > 0 /\ ret.value.size.y > 0
    /\ \E p \in AllPoints : ~AxisInside(ret.value.center.x, ret.value.size.x, p.x)

\* r = sqrt(total_steps) * start_range_factor, in units.
StartRadius(w) == Fl(SqrtUnits(w.total_steps) * w.config.start_range_factor)

ReadPoint(w, first) ==
    IF Len(w.path) = 0 THEN [x |-> 0, y |-> 0, z |-> 0]
    ELSE IF first THEN w.path[1] ELSE w.path[Len(w.path)]

\* C15: get_start_point() and get_end_point() never fail; on an empty path
\* both return the zero point, otherwise the position of the first and of the
\* last waypoint; neither changes the walker.
C15_PointReaders ==
    [][ret'.op \in {"get_start_point", "get_end_point"} =>
          /\ ret'.status = "ok"
          /\ ret'.who \in DOMAIN walkers
          /\ walkers' = walkers /\ calls' = calls /\ crashed' = crashed
          /\ ret'.value = ReadPoint(walkers[ret'.who], ret'.op = "get_start_point")]_vars

\* get_end_point() on a generated path whose last waypoint is not its first.
C15_Witness ==
    /\ ret.op = "get_end_point" /\ Exists(ret.who)
    /\ Len(walkers[ret.who].path) >= 2
    /\ ret.value = walkers[ret.who].path[Len(walkers[ret.who].path)]
    /\ ret.value # walkers[ret.who].path[1]

\* The step calls op on walker i.
Calls(i, op) ==
    /\ Exists(i) /\ i \in DOMAIN calls' /\ calls'[i] = Append(calls[i], op)

\* The speed one sample of the stream of the given seed gives under config.
FirstSample(config, seed) ==
    RealDraw(config.min_speed, SpeedUpper(config), SeedRng(seed))

\* C16 as claimed: set_seed and set_speed_range both reseed the stream to the
\* configured seed before redrawing the speed, the redraw taking exactly one
\* sample (two words of the generator).
C16_ReseedOnBoth ==
    [][\A i \in DOMAIN walkers :
          (Calls(i, "set_seed") \/ Calls(i, "set_speed_range")) =>
              /\ walkers'[i].rng = Advance(SeedRng(walkers'[i].config.seed), 2)
              /\ GetSpeed(walkers'[i])
                    = FirstSample(walkers'[i].config, walkers'[i].config.seed)]_vars

\* C16 as amended: both redraw the speed with exactly one sample, under the
\* configuration as the call leaves it; set_seed reseeds the stream to the new
\* seed first, set_speed_range draws at the stream's current position.
C16_RedrawOnBoth ==
    [][\A i \in DOMAIN walkers :
          /\ Calls(i, "set_seed") =>
                /\ walkers'[i].config.seed = ret'.args[1]
                /\ walkers'[i].rng = Advance(SeedRng(ret'.args[1]), 2)
                /\ GetSpeed(walkers'[i]) = FirstSample(walkers'[i].config, ret'.args[1])
          /\ Calls(i, "set_speed_range") =>
                /\ walkers'[i].rng = Advance(walkers[i].rng, 2)
                /\ GetSpeed(walkers'[i])
                      = RealDraw(ret'.args[1], SpeedUpper(walkers'[i].config), walkers[i].rng)]_vars

\* set_speed_range on a walker whose stream generate() has moved on: the new
\* speed is not the one a reseeded stream gives.
C16_Witness ==
    \E i \in DOMAIN walkers :
        /\ calls[i] = <<"generate", "set_speed_range">>
        /\ walkers[i].rng.pos = 4 + GenerateWords(walkers[i])
        /\ GetSpeed(walkers[i]) # FirstSample(walkers[i].config, walkers[i].config.seed)

\* C17: set_speed_range(min, max) stores the bounds and redraws the speed at
\* the stream's current position without reseeding: the stream moves on by
\* one sample, config.seed and the path stay, and a following generate()
\* continues after that draw, one sample further than on a walker that did
\* not call set_speed_range.
C17_RangeContinues ==
    [][\A i \in DOMAIN walkers :
          /\ Calls(i, "set_speed_range") =>
                /\ walkers'[i].config.min_speed = ret'.args[1]
                /\ walkers'[i].config.max_speed = ret'.args[2]
                /\ walkers'[i].config.seed = walkers[i].config.seed
                /\ walkers'[i].path = walkers[i].path
                /\ walkers'[i].rng.seed = walkers[i].rng.seed
                /\ walkers'[i].rng.pos = walkers[i].rng.pos + 2
          /\ (Calls(i, "generate") /\ JustCalled(i, "set_speed_range")) =>
                /\ walkers'[i].rng.seed = walkers[i].rng.seed
                /\ walkers'[i].rng.pos = walkers[i].rng.pos + GenerateWords(walkers[i])
                /\ calls[i] = <<"set_speed_range">> =>
                      /\ walkers'[i].rng.pos = FreshGenerated(walkers'[i]).rng.pos + 2
                      /\ walkers'[i].rng.pos # FreshGenerated(walkers'[i]).rng.pos]_vars

\* A walker that called set_speed_range with the bounds it had and then
\* generate(): its path is not the one of a walker that only called
\* generate().
C17_Witness ==
    \E i \in DOMAIN walkers :
        /\ calls[i] = <<"set_speed_range", "generate">>
        /\ walkers[i].config.min_speed = Unit /\ walkers[i].config.max_speed = 3 * Unit
        /\ walkers[i].rng.pos = FreshGenerated(walkers[i]).rng.pos + 2
        /\ walkers[i].path # FreshGenerated(walkers[i]).path

\* Everything the three setters must leave alone.
SameButConfig(w, v) ==
    /\ v.path = w.path
    /\ GetSpeed(v) = GetSpeed(w)
    /\ v.rng = w.rng
    /\ v.total_steps = w.total_steps
    /\ v.config.seed = w.config.seed
    /\ v.config.min_speed = w.config.min_speed
    /\ v.config.max_speed = w.config.max_speed

\* Some step of the path moves on both axes.
HasDiagonalStep(path) ==
    \E k \in 1..(Len(path) - 1) : path[k + 1].x # path[k].x /\ path[k + 1].y # path[k].y

\* C18: set_move_pattern, set_random_start and set_start_range_factor change
\* only their configuration field, leaving path, speed, seed and stream
\* position; the next generate() uses the new value: no diagonal step after
\* set_move_pattern(Neumann), the origin as start after
\* set_random_start(false), the new start range after set_start_range_factor.
C18_SettersFrame ==
    [][\A i \in DOMAIN walkers :
          /\ Calls(i, "set_move_pattern") =>
                /\ SameButConfig(walkers[i], walkers'[i])
                /\ walkers'[i].config
                      = [walkers[i].config EXCEPT !.move_pattern = ret'.args[1]]
          /\ Calls(i, "set_random_start") =>
                /\ SameButConfig(walkers[i], walkers'[i])
                /\ walkers'[i].config
                      = [walkers[i].config EXCEPT !.random_start = ret'.args[1]]
          /\ Calls(i, "set_start_range_factor") =>
                /\ SameButConfig(walkers[i], walkers'[i])
                /\ walkers'[i].config
                      = [walkers[i].config EXCEPT !.start_range_factor = ret'.args[1]]
          /\ (Calls(i, "generate") /\ JustCalled(i, "set_move_pattern")
                /\ walkers[i].config.move_pattern = Neumann) =>
                ~HasDiagonalStep(walkers'[i].path)
          /\ (Calls(i, "generate") /\ JustCalled(i, "set_random_start")
                /\ ~walkers[i].config.random_start) =>
                walkers'[i].path[1] = Origin
          /\ (Calls(i, "generate") /\ JustCalled(i, "set_start_range_factor")
                /\ walkers[i].config.random_start) =>
                /\ Abs(walkers'[i].path[1].x) <= StartRadius(walkers[i])
                /\ Abs(walkers'[i].path[1].y) <= StartRadius(walkers[i])]_vars

\* set_random_start(false) on a walker holding a path with a diagonal step
\* that started away from the origin: the path is still there.
C18_Witness ==
    \E i \in DOMAIN walkers :
        /\ calls[i] = <<"generate", "set_random_start">>
        /\ ~walkers[i].config.random_start
        /\ Len(walkers[i].path) = walkers[i].total_steps + 1
        /\ walkers[i].path[1] # Origin
        /\ HasDiagonalStep(walkers[i].path)

\* C19 as claimed: whenever the path is not empty, every step of it moves by
\* exactly get_speed() on each axis on which it moves.
C19_SpeedFixed ==
    \A i \in DOMAIN walkers :
        walkers[i].path # << >> =>
            \A k \in 1..(Len(walkers[i].path) - 1) :
                /\ Abs(walkers[i].path[k + 1].x - walkers[i].path[k].x)
                      \in {0, Abs(GetSpeed(walkers[i]))}
                /\ Abs(walkers[i].path[k + 1].y - walkers[i].path[k].y)
                      \in {0, Abs(GetSpeed(walkers[i]))}

\* The speed was not redrawn after the path was generated.
SpeedOfPath(i) ==
    /\ Exists(i)
    /\ \E g \in DOMAIN calls[i] :
          /\ calls[i][g] = "generate"
          /\ \A k \in (g + 1)..Len(calls[i]) :
                calls[i][k] \notin {"generate", "set_seed", "set_speed_range"}

\* Every step of the path adds 0 or +-speed to each coordinate, the sum
\* rounded to the nearest double.
RoundedStepsOf(w) ==
    \A k \in 1..(Len(w.path) - 1) :
        \E d \in AllowedSteps(Moore, GetSpeed(w)) :
            /\ w.path[k + 1].x = FAdd(w.path[k].x, d[1])
            /\ w.path[k + 1].y = FAdd(w.path[k].y, d[2])

\* C19 as amended: generate() does not change the speed and makes every step
\* with it (each coordinate sum rounded); the stored path keeps that relation
\* to get_speed() until set_seed or set_speed_range redraws the speed.
C19_SpeedOfWalk ==
    [][\A i \in DOMAIN walkers :
          /\ Calls(i, "generate") => GetSpeed(walkers'[i]) = GetSpeed(walkers[i])
          /\ (i \in DOMAIN walkers' /\ SpeedOfPath(i)') => RoundedStepsOf(walkers'[i])]_vars

\* A path generated with one speed and kept through two setters that do not
\* redraw it.
C19_Witness ==
    \E i \in DOMAIN walkers :
        /\ calls[i] = <<"generate", "set_move_pattern", "set_start_range_factor">>
        /\ Len(walkers[i].path) >= 3
        /\ GetSpeed(walkers[i]) > Unit
        /\ RoundedStepsOf(walkers[i])

\* Twice the rounding error the first idx additions on an axis can add up
\* to: the spacing of doubles at each sum.
RECURSIVE SlackX(_, _)
SlackX(path, idx) ==
    IF idx = 0 THEN 0 ELSE Quantum(Abs(path[idx + 1].x), 1) + SlackX(path, idx - 1)

RECURSIVE SlackY(_, _)
SlackY(path, idx) ==
    IF idx = 0 THEN 0 ELSE Quantum(Abs(path[idx + 1].y), 1) + SlackY(path, idx - 1)

\* The waypoint at index idx is start + speed * (a, b), to within half of
\* slack2x, slack2y, for whole a, b the pattern allows after idx steps.
InRegion(w, idx, slack2x, slack2y) ==
    \E a, b \in (-idx)..idx :
        /\ w.config.move_pattern = Neumann =>
              /\ Abs(a) + Abs(b) <= idx
              /\ (a + b + idx) % 2 = 0
        /\ 2 * Abs(w.path[idx + 1].x - (w.path[1].x + GetSpeed(w) * a)) <= slack2x
        /\ 2 * Abs(w.path[idx + 1].y - (w.path[1].y + GetSpeed(w) * b)) <= slack2y
        /\ w.path[idx + 1].z = w.path[1].z

\* C20 as claimed: right after generate(), the waypoint at index i equals
\* start + speed * (a, b) for whole a, b with |a| <= i and |b| <= i, under
\* Neumann also |a| + |b| <= i and a + b of the parity of i; get_end_point()
\* returns the waypoint at index total_steps.
C20_RegionExact ==
    \A i \in DOMAIN walkers :
        JustCalled(i, "generate") =>
            /\ \A idx \in 0..walkers[i].total_steps : InRegion(walkers[i], idx, 0, 0)
            /\ GetEndPoint(walkers[i]) = walkers[i].path[walkers[i].total_steps + 1]

\* C20 as amended: the same up to the rounding of the i additions that lead
\* to the waypoint, each at most half the spacing of doubles at its sum.
C20_RegionRounded ==
    \A i \in DOMAIN walkers :
        JustCalled(i, "generate") =>
            /\ \A idx \in 0..walkers[i].total_steps :
                  InRegion(walkers[i], idx, SlackX(walkers[i].path, idx),
                           SlackY(walkers[i].path, idx))
            /\ GetEndPoint(walkers[i]) = walkers[i].path[walkers[i].total_steps + 1]

\* A Neumann walk of two steps that is back at its start: a + b = 0.
C20_Witness ==
    \E i \in DOMAIN walkers :
        /\ JustCalled(i, "generate")
        /\ walkers[i].config.move_pattern = Neumann
        /\ walkers[i].total_steps = 2
        /\ GetSpeed(walkers[i]) > 0
        /\ walkers[i].path[2] # walkers[i].path[1]
        /\ GetEndPoint(walkers[i]) = walkers[i].path[1]

====
